---- MODULE Spec2Model ----
(***************************************************************************)
(* Geno-Clarity: the analyze request (src/src/app/api/analyze/route.ts).   *)
(*                                                                         *)
(* One POST request is followed from its arrival to its response: the      *)
(* file and header gates, the parse, the fan-out of one task per drug, the *)
(* external explanation call each task awaits, and Promise.all's fan-in.   *)
(* The per-record computations (detected variants, confidence banding) are *)
(* operators, also exercised on their own under SpecRecord, SpecConf and   *)
(* SpecImpact.  SpecPheno and SpecPK follow a record into the dashboard's  *)
(* PK simulator (src/src/components/DoctorDashboard.tsx); SpecUpload and   *)
(* SpecDrugs are the upload form (src/unnamed/part_000).                   *)
(***************************************************************************)
EXTENDS Integers, Sequences, FiniteSets, TLC

\* ------------------------------------------------------------------ bounds
MaxLines == 2
MaxDrugs == 2
MaxVariants == 2
MaxSelections == 2
MaxAppends == 1

\* ------------------------------------------------------------- vocabulary
Rs(n) == [pre |-> "rs", num |-> n]

\* route.ts:6-9
TARGET_DRUGS ==
    << "CODEINE", "WARFARIN", "CLOPIDOGREL", "SIMVASTATIN", "AZATHIOPRINE",
       "FLUOROURACIL", "AMIODARONE", "CITALOPRAM", "OMEPRAZOLE", "PHENYTOIN" >>

\* route.ts:11-22
MECHANISM_MAP ==
    [ CODEINE |-> "CYP2D6_activation",
      WARFARIN |-> "CYP2C9_clearance",
      CLOPIDOGREL |-> "CYP2C19_activation",
      SIMVASTATIN |-> "SLCO1B1_transport",
      AZATHIOPRINE |-> "TPMT_clearance",
      FLUOROURACIL |-> "DPYD_catabolism",
      PHENYTOIN |-> "CYP2C9_clearance",
      CITALOPRAM |-> "CYP2C19_clearance",
      OMEPRAZOLE |-> "CYP2C19_clearance",
      AMIODARONE |-> "CYP2C9_clearance" ]

Genes == {"CYP2C19", "CYP2C9", "CYP2D6", "TPMT", "DPYD", "SLCO1B1"}

\* The curated rsID table of getImpact, route.ts:167-174.
CuratedTableShared ==
    [ CYP2C19 |-> {Rs(4244285), Rs(4986893)},
      CYP2C9  |-> {Rs(1799853), Rs(1057910), Rs(4244285)},
      CYP2D6  |-> {Rs(3892097), Rs(1065852), Rs(16947), Rs(1135840)},
      TPMT    |-> {Rs(1142345), Rs(1800460), Rs(1800462)},
      DPYD    |-> {Rs(3918290), Rs(67376798)},
      SLCO1B1 |-> {Rs(4149056), Rs(2306283)} ]

CuratedTable ==
    [ CYP2C19 |-> {Rs(4244285), Rs(4986893)},
      CYP2C9  |-> {Rs(1799853), Rs(1057910)},
      CYP2D6  |-> {Rs(3892097), Rs(1065852), Rs(16947), Rs(1135840)},
      TPMT    |-> {Rs(1142345), Rs(1800460), Rs(1800462)},
      DPYD    |-> {Rs(3918290), Rs(67376798)},
      SLCO1B1 |-> {Rs(4149056), Rs(2306283)} ]

\* ------------------------------------------------------- per-record logic
\* belongsToGene, route.ts:167-174: an unknown gene matches no branch.
belongsToGeneAny(rsid, currentGene) ==
    \E g \in Genes : rsid \in CuratedTable[g]

belongsToGene(rsid, currentGene) ==
    currentGene \in Genes /\ rsid \in CuratedTable[currentGene]

\* getImpact, route.ts:165-186.
getImpactLossOnly(rsid, genotype, currentGene) ==
    IF ~belongsToGene(rsid, currentGene) THEN "Unknown"
    ELSE IF genotype = "0/0" THEN "Normal_function"
    ELSE IF genotype = "0/1" THEN "Reduced_function"
    ELSE IF genotype = "1/1" THEN "Loss_of_function"
    ELSE "Unknown"

getImpact(rsid, genotype, currentGene) ==
    IF ~belongsToGene(rsid, currentGene) THEN "Unknown"
    ELSE IF genotype = "0/0" THEN "Normal_function"
    ELSE IF genotype = "0/1" THEN "Reduced_function"
    ELSE IF genotype = "1/1" THEN
        IF rsid \in {Rs(3892097), Rs(3918290), Rs(1065852)} THEN "No_function"
        ELSE "Loss_of_function"
    ELSE "Unknown"

\* v.id && v.id.startsWith('rs'), route.ts:189.  An id is its leading two
\* characters and the rest; the empty id (falsy) has the empty prefix.
idStartsWithRs(v) == v.id.pre # "" /\ v.id.pre = "rs"

\* route.ts:192-193.  sampleData[0] is kept as its colon-separated tokens; no
\* sample column, or an empty one, is the empty sequence (falsy).  A field with
\* a colon has more than one token and split(':')[0] is the first; a field
\* without one is its only token.
extractGenotype(v) ==
    LET rawSample == IF v.sampleData = << >> THEN << "Unknown" >> ELSE v.sampleData
    IN  IF Len(rawSample) > 1 THEN rawSample[1] ELSE rawSample[1]

\* route.ts:188-199: the first filter and the map.
annotatedVariants(variants, gene) ==
    LET kept == SelectSeq(variants, idStartsWithRs)
    IN  [ k \in 1..Len(kept) |->
            [ rsid |-> kept[k].id,
              genotype |-> extractGenotype(kept[k]),
              impact |-> getImpact(kept[k].id, extractGenotype(kept[k]), gene) ] ]

impactKnown(d) == d.impact # "Unknown"

\* route.ts:188-201.
detectedVariants(variants, gene) ==
    SelectSeq(annotatedVariants(variants, gene), impactKnown)

\* route.ts:204: computed over the already filtered list.
allVariantsHaveImpact(detected) ==
    IF Len(detected) > 0
    THEN \A k \in 1..Len(detected) : detected[k].impact # "Unknown"
    ELSE TRUE

\* route.ts:206-209, in hundredths: gciScore / 100 is compared with 1.0, 0.85
\* and 0.95, and an integer score divided by 100 is the same double as the
\* literal, so the comparisons are exact on the score itself.
finalConfidenceNoBand(gciScore) ==
    IF gciScore >= 100 THEN 95 ELSE gciScore

finalConfidence(gciScore) ==
    LET c1 == IF gciScore >= 100 THEN 95 ELSE gciScore
    IN  IF c1 > 85 /\ c1 < 95 THEN 90 ELSE c1

\* ------------------------------------------------------------- strings
\* Phenotype labels are searched for substrings and lower-cased, so they are
\* kept as sequences of characters.
includes(str, sub) ==
    \E i \in 1..(Len(str) - Len(sub) + 1) : SubSeq(str, i, i + Len(sub) - 1) = sub

UpperChars == << "A", "B", "C", "D", "E", "F", "G", "H", "I", "J", "K", "L", "M",
                "N", "O", "P", "Q", "R", "S", "T", "U", "V", "W", "X", "Y", "Z" >>
LowerChars == << "a", "b", "c", "d", "e", "f", "g", "h", "i", "j", "k", "l", "m",
                "n", "o", "p", "q", "r", "s", "t", "u", "v", "w", "x", "y", "z" >>

lowerChar(c) ==
    IF \E k \in 1..26 : UpperChars[k] = c
    THEN LowerChars[CHOOSE k \in 1..26 : UpperChars[k] = c]
    ELSE c

\* String.prototype.toLowerCase.
toLowerCase(str) == [ i \in 1..Len(str) |-> lowerChar(str[i]) ]

\* The labels evaluateDrugRisk (lib/pgxRulesBase) gives an assessment: the
\* closed vocabulary of spec 4.3 in the spellings route.ts:145-152 looks for.
L_PoorMetabolizer == << "P", "o", "o", "r", " ", "M", "e", "t", "a", "b", "o", "l", "i", "z", "e", "r" >>
L_PoorFunction == << "P", "o", "o", "r", " ", "F", "u", "n", "c", "t", "i", "o", "n" >>
L_IntermediateMetabolizer == << "I", "n", "t", "e", "r", "m", "e", "d", "i", "a", "t", "e", " ", "M", "e", "t", "a", "b", "o", "l", "i", "z", "e", "r" >>
L_DecreasedFunction == << "D", "e", "c", "r", "e", "a", "s", "e", "d", " ", "F", "u", "n", "c", "t", "i", "o", "n" >>
L_NormalMetabolizer == << "N", "o", "r", "m", "a", "l", " ", "M", "e", "t", "a", "b", "o", "l", "i", "z", "e", "r" >>
L_NormalFunction == << "N", "o", "r", "m", "a", "l", " ", "F", "u", "n", "c", "t", "i", "o", "n" >>
L_RapidMetabolizer == << "R", "a", "p", "i", "d", " ", "M", "e", "t", "a", "b", "o", "l", "i", "z", "e", "r" >>
L_UltrarapidMetabolizer == << "U", "l", "t", "r", "a", "r", "a", "p", "i", "d", " ", "M", "e", "t", "a", "b", "o", "l", "i", "z", "e", "r" >>
L_UltraRapidMetabolizer == << "U", "l", "t", "r", "a", " ", "R", "a", "p", "i", "d", " ", "M", "e", "t", "a", "b", "o", "l", "i", "z", "e", "r" >>
L_Indeterminate == << "I", "n", "d", "e", "t", "e", "r", "m", "i", "n", "a", "t", "e" >>

\* A label getKeModifier also looks for (DoctorDashboard.tsx:228).
L_NoFunction == << "N", "o", " ", "F", "u", "n", "c", "t", "i", "o", "n" >>

PhenotypeVocabulary ==
    { L_PoorMetabolizer,
      L_PoorFunction,
      L_IntermediateMetabolizer,
      L_DecreasedFunction,
      L_NormalMetabolizer,
      L_NormalFunction,
      L_RapidMetabolizer,
      L_UltrarapidMetabolizer,
      L_UltraRapidMetabolizer,
      L_Indeterminate }

\* The codes of route.ts:144-152.
P_PM == << "P", "M" >>
P_IM == << "I", "M" >>
P_NM == << "N", "M" >>
P_RM == << "R", "M" >>
P_URM == << "U", "R", "M" >>
P_Normal == << "N", "o", "r", "m", "a", "l" >>
P_Unknown == << "U", "n", "k", "n", "o", "w", "n" >>

\* The substrings of DoctorDashboard.tsx:228-238.
W_poor == << "p", "o", "o", "r" >>
W_no_function == << "n", "o", " ", "f", "u", "n", "c", "t", "i", "o", "n" >>
W_intermediate == << "i", "n", "t", "e", "r", "m", "e", "d", "i", "a", "t", "e" >>
W_decreased == << "d", "e", "c", "r", "e", "a", "s", "e", "d" >>
W_ultrarapid == << "u", "l", "t", "r", "a", "r", "a", "p", "i", "d" >>
W_ultra == << "u", "l", "t", "r", "a" >>
W_rapid == << "r", "a", "p", "i", "d" >>

\* normalizedPhenotype, route.ts:143-152: five independent ifs, the later one
\* winning, then the exact-match case.
normalizedPhenotypeMerged(rawPhenotype) ==
    LET n0 == P_Unknown
        n1 == IF includes(rawPhenotype, L_PoorMetabolizer) \/ includes(rawPhenotype, L_PoorFunction)
              THEN P_PM ELSE n0
        n2 == IF includes(rawPhenotype, L_IntermediateMetabolizer) \/ includes(rawPhenotype, L_DecreasedFunction)
              THEN P_IM ELSE n1
        n3 == IF includes(rawPhenotype, L_NormalMetabolizer) \/ includes(rawPhenotype, L_NormalFunction)
              THEN P_NM ELSE n2
        n4 == IF includes(rawPhenotype, L_RapidMetabolizer) THEN P_RM ELSE n3
    IN  IF includes(rawPhenotype, L_UltrarapidMetabolizer) \/ includes(rawPhenotype, L_UltraRapidMetabolizer)
        THEN P_URM ELSE n4

normalizedPhenotypeRapidLast(rawPhenotype) ==
    LET n0 == P_Unknown
        n1 == IF includes(rawPhenotype, L_PoorMetabolizer) \/ includes(rawPhenotype, L_PoorFunction)
              THEN P_PM ELSE n0
        n2 == IF includes(rawPhenotype, L_IntermediateMetabolizer) \/ includes(rawPhenotype, L_DecreasedFunction)
              THEN P_IM ELSE n1
        n3 == IF includes(rawPhenotype, L_NormalMetabolizer) \/ includes(rawPhenotype, L_NormalFunction)
              THEN P_NM ELSE n2
        n4 == IF includes(rawPhenotype, L_UltrarapidMetabolizer) \/ includes(rawPhenotype, L_UltraRapidMetabolizer)
              THEN P_URM ELSE n3
        n5 == IF includes(rawPhenotype, L_RapidMetabolizer) THEN P_RM ELSE n4
    IN  IF rawPhenotype = L_NormalFunction THEN P_Normal ELSE n5

normalizedPhenotype(rawPhenotype) ==
    LET n0 == P_Unknown
        n1 == IF includes(rawPhenotype, L_PoorMetabolizer) \/ includes(rawPhenotype, L_PoorFunction)
              THEN P_PM ELSE n0
        n2 == IF includes(rawPhenotype, L_IntermediateMetabolizer) \/ includes(rawPhenotype, L_DecreasedFunction)
              THEN P_IM ELSE n1
        n3 == IF includes(rawPhenotype, L_NormalMetabolizer) \/ includes(rawPhenotype, L_NormalFunction)
              THEN P_NM ELSE n2
        n4 == IF includes(rawPhenotype, L_RapidMetabolizer) THEN P_RM ELSE n3
        n5 == IF includes(rawPhenotype, L_UltrarapidMetabolizer) \/ includes(rawPhenotype, L_UltraRapidMetabolizer)
              THEN P_URM ELSE n4
    IN  IF rawPhenotype = L_NormalFunction THEN P_Normal ELSE n5

\* The risk categories of an assessment (spec 4.4).
RiskCategories == {"Safe", "Adjust Dosage", "Toxic", "Indeterminate"}

\* normalizedRiskLabel, route.ts:155-156.
normalizedRiskLabelKept(risk) == risk

normalizedRiskLabel(risk) == IF risk = "Indeterminate" THEN "Unknown" ELSE risk

\* severity, route.ts:159-162.
severity(riskLabel) ==
    IF riskLabel = "Toxic" THEN "critical"
    ELSE IF riskLabel = "Adjust Dosage" THEN "moderate"
    ELSE IF riskLabel = "Safe" THEN "none"
    ELSE "low"

\* PRODRUG_SET, DoctorDashboard.tsx:244.
PRODRUG_SET_Clearance == {"CODEINE", "CLOPIDOGREL", "OMEPRAZOLE"}

PRODRUG_SET == {"CODEINE", "CLOPIDOGREL"}

\* getKeModifier, DoctorDashboard.tsx:224-241, in hundredths.
getKeModifierRapidFirst(phenotype, isProdrug) ==
    LET p == toLowerCase(phenotype)
    IN  IF isProdrug
        THEN IF includes(p, W_poor) \/ includes(p, W_no_function) THEN 15
             ELSE IF includes(p, W_intermediate) \/ includes(p, W_decreased) THEN 55
             ELSE IF includes(p, W_rapid) THEN 150
             ELSE IF includes(p, W_ultrarapid) \/ includes(p, W_ultra) THEN 220
             ELSE 100
        ELSE IF includes(p, W_poor) \/ includes(p, W_no_function) THEN 20
             ELSE IF includes(p, W_intermediate) \/ includes(p, W_decreased) THEN 50
             ELSE IF includes(p, W_rapid) THEN 150
             ELSE IF includes(p, W_ultrarapid) \/ includes(p, W_ultra) THEN 200
             ELSE 100

getKeModifier(phenotype, isProdrug) ==
    LET p == toLowerCase(phenotype)
    IN  IF isProdrug
        THEN IF includes(p, W_poor) \/ includes(p, W_no_function) THEN 15
             ELSE IF includes(p, W_intermediate) \/ includes(p, W_decreased) THEN 55
             ELSE IF includes(p, W_ultrarapid) \/ includes(p, W_ultra) THEN 220
             ELSE IF includes(p, W_rapid) THEN 150
             ELSE 100
        ELSE IF includes(p, W_poor) \/ includes(p, W_no_function) THEN 20
             ELSE IF includes(p, W_intermediate) \/ includes(p, W_decreased) THEN 50
             ELSE IF includes(p, W_ultrarapid) \/ includes(p, W_ultra) THEN 200
             ELSE IF includes(p, W_rapid) THEN 150
             ELSE 100

\* ------------------------------------------------------- the PK simulator
\* DRUG_PK_PARAMS, DoctorDashboard.tsx:206-220.  Units: D in mg, Vd in L, F,
\* toxicity and efficacy in hundredths, ka and ke_normal in thousandths per
\* hour, halfLifeHr in tenths of an hour.
DRUG_PK_PARAMS ==
    [ CODEINE |-> [D |-> 30, F |-> 90, Vd |-> 200, ka |-> 1500, ke_normal |-> 350, toxicity |-> 25, efficacy |-> 5, halfLifeHr |-> 30],
      WARFARIN |-> [D |-> 5, F |-> 90, Vd |-> 10, ka |-> 600, ke_normal |-> 40, toxicity |-> 300, efficacy |-> 80, halfLifeHr |-> 360],
      CLOPIDOGREL |-> [D |-> 75, F |-> 50, Vd |-> 400, ka |-> 1200, ke_normal |-> 600, toxicity |-> 60, efficacy |-> 10, halfLifeHr |-> 60],
      SIMVASTATIN |-> [D |-> 40, F |-> 5, Vd |-> 580, ka |-> 1000, ke_normal |-> 1500, toxicity |-> 12, efficacy |-> 2, halfLifeHr |-> 20],
      AZATHIOPRINE |-> [D |-> 100, F |-> 80, Vd |-> 45, ka |-> 1300, ke_normal |-> 350, toxicity |-> 800, efficacy |-> 200, halfLifeHr |-> 50],
      FLUOROURACIL |-> [D |-> 500, F |-> 100, Vd |-> 22, ka |-> 2000, ke_normal |-> 900, toxicity |-> 30000, efficacy |-> 8000, halfLifeHr |-> 5],
      AMIODARONE |-> [D |-> 200, F |-> 50, Vd |-> 5000, ka |-> 300, ke_normal |-> 3, toxicity |-> 350, efficacy |-> 100, halfLifeHr |-> 400],
      CITALOPRAM |-> [D |-> 20, F |-> 80, Vd |-> 400, ka |-> 500, ke_normal |-> 40, toxicity |-> 50, efficacy |-> 5, halfLifeHr |-> 350],
      OMEPRAZOLE |-> [D |-> 20, F |-> 65, Vd |-> 35, ka |-> 800, ke_normal |-> 700, toxicity |-> 250, efficacy |-> 30, halfLifeHr |-> 15],
      PHENYTOIN |-> [D |-> 300, F |-> 90, Vd |-> 45, ka |-> 400, ke_normal |-> 30, toxicity |-> 2500, efficacy |-> 1000, halfLifeHr |-> 220] ]

\* The fallback of DoctorDashboard.tsx:247-250 (and the ?? 6 of line 307).
DefaultPKParams ==
    [D |-> 100, F |-> 80, Vd |-> 50, ka |-> 1200, ke_normal |-> 250, toxicity |-> 800, efficacy |-> 200, halfLifeHr |-> 60]

pkParamsFirstEntry(drug) ==
    IF drug \in DOMAIN DRUG_PK_PARAMS THEN DRUG_PK_PARAMS[drug] ELSE DRUG_PK_PARAMS["CODEINE"]

pkParams(drug) ==
    IF drug \in DOMAIN DRUG_PK_PARAMS THEN DRUG_PK_PARAMS[drug] ELSE DefaultPKParams

\* getTimeWindow, DoctorDashboard.tsx:306-314; fiveHL in tenths of an hour.
getTimeWindowLate(drug) ==
    LET fiveHL == pkParams(drug).halfLifeHr * 5
    IN  IF fiveHL < 240 THEN 12
        ELSE IF fiveHL < 720 THEN 24
        ELSE IF fiveHL < 1200 THEN 72
        ELSE 120

getTimeWindow(drug) ==
    LET fiveHL == pkParams(drug).halfLifeHr * 5
    IN  IF fiveHL < 120 THEN 12
        ELSE IF fiveHL < 240 THEN 24
        ELSE IF fiveHL < 720 THEN 72
        ELSE 120

\* Concentrations are carried in ten-thousandths, the precision toFixed(4)
\* reports them with (DoctorDashboard.tsx:283-284).
SCALE == 10000

Max(a, b) == IF a >= b THEN a ELSE b
Abs(a) == IF a < 0 THEN 0 - a ELSE a

\* a / b rounded toward zero, for either sign.
sdiv(a, b) ==
    IF (a < 0) = (b < 0) THEN Abs(a) \div Abs(b) ELSE 0 - (Abs(a) \div Abs(b))

\* a * b / c without the product leaving 32 bits (c > 0 and a >= 0).
mulDiv(a, b, c) == (a \div c) * b + sdiv((a % c) * b, c)

\* Math.exp(-x) for x >= 0 in 10^-5, as a SCALE fixed-point number: e^-1 to
\* the power of the integer part times a Taylor polynomial of the fraction.
\* It is exactly SCALE at 0 and 0 from x = 10 on (e^-10 < 0.00005).
RECURSIVE expNegInt(_)
expNegInt(n) ==
    IF n = 0 THEN SCALE
    ELSE IF n >= 10 THEN 0
    ELSE (expNegInt(n - 1) * 3679) \div SCALE

RECURSIVE expNegTaylor(_, _, _)
expNegTaylor(f, k, term) ==
    IF k > 8 \/ term = 0 THEN 0
    ELSE LET next == (term * f) \div (SCALE * k)
         IN  (IF k % 2 = 1 THEN 0 - next ELSE next) + expNegTaylor(f, k + 1, next)

expNeg(x) ==
    LET n == x \div 100000
        f == (x % 100000) \div 10
    IN  (expNegInt(n) * (SCALE + expNegTaylor(f, 1, SCALE))) \div SCALE

\* The rate times the time: k in 10^-5 per hour, t in quarter hours.
rateTime(k, t) == (k * t) \div 4

\* (D*F/Vd) * (ka/(ka - ke)) * (e^(-ke t) - e^(-ka t)),
\* DoctorDashboard.tsx:268; ka and ke in 10^-5 per hour.
closedForm(params, ka, ke, t) ==
    LET coef == (params.D * params.F * SCALE) \div (params.Vd * 100)
        ratio == sdiv(ka * 1000, ka - ke)
        diff == expNeg(rateTime(ke, t)) - expNeg(rateTime(ka, t))
    IN  mulDiv(coef, sdiv(ratio * diff, 1000), SCALE)

\* DoctorDashboard.tsx:266-270: the guarded closed form, clamped at 0.
concentrationAtWide(params, ka, ke, t) ==
    LET c == IF Abs(ka - ke) > 10000 THEN closedForm(params, ka, ke, t) ELSE 0
    IN  Max(0, c)

concentrationAtBolus(params, ka, ke, t) ==
    LET coef == (params.D * params.F * SCALE) \div (params.Vd * 100)
        ratio == sdiv(ka * 1000, ka - ke)
        c == IF Abs(ka - ke) > 100
             THEN mulDiv(coef, sdiv(ratio * expNeg(rateTime(ke, t)), 1000), SCALE)
             ELSE 0
    IN  c

concentrationAt(params, ka, ke, t) ==
    LET c == IF Abs(ka - ke) > 100 THEN closedForm(params, ka, ke, t) ELSE 0
    IN  Max(0, c)

\* DoctorDashboard.tsx:276-278: kmet = ke * 0.4 and the metabolite value.
metaboliteAt(concentration, ke, keModifier, t) ==
    LET kmet == (ke * 4) \div 10
        grown == mulDiv(concentration, SCALE - expNeg(rateTime(kmet, t)), SCALE)
    IN  Max(0, (grown * keModifier * 30) \div 10000)

\* The object pushed at DoctorDashboard.tsx:281-287; time in hundredths of an
\* hour (toFixed(2)).
pkSampleAlways(t, concentration, metabolite, isProdrug, params) ==
    [ time |-> t * 25,
      concentration |-> concentration,
      metabolite |-> IF isProdrug THEN metabolite ELSE 0,
      toxicity |-> params.toxicity,
      efficacy |-> params.efficacy ]

pkSample(t, concentration, metabolite, isProdrug, params) ==
    IF isProdrug
    THEN [ time |-> t * 25,
           concentration |-> concentration,
           metabolite |-> metabolite,
           toxicity |-> params.toxicity,
           efficacy |-> params.efficacy ]
    ELSE [ time |-> t * 25,
           concentration |-> concentration,
           toxicity |-> params.toxicity,
           efficacy |-> params.efficacy ]

\* The loop of DoctorDashboard.tsx:263-288: for (t = 0; t <= timeWindow;
\* t += step), t, step and last in quarter hours.  The windows are multiples
\* of 12, so step = timeWindow / 48 is a multiple of 0.25 and the sums of the
\* loop are exact in binary floating point.
RECURSIVE pkLoop(_, _, _, _, _, _, _)
pkLoop(t, step, last, params, ka, ke, flags) ==
    IF t <= last
    THEN LET c == concentrationAt(params, ka, ke, t)
             m == IF flags.isProdrug THEN metaboliteAt(c, ke, flags.keModifier, t) ELSE 0
         IN  << pkSample(t, c, m, flags.isProdrug, params) >>
                 \o pkLoop(t + step, step, last, params, ka, ke, flags)
    ELSE << >>

\* generatePKData, DoctorDashboard.tsx:246-291.
generatePKData(drug, phenotype, timeWindow) ==
    LET params == pkParams(drug)
        isProdrug == drug \in PRODRUG_SET
        keModifier == getKeModifier(phenotype, isProdrug)
        ke == params.ke_normal * keModifier
        step == (timeWindow * 4) \div 48
    IN  pkLoop(0, step, timeWindow * 4, params, params.ka * 100, ke,
               [isProdrug |-> isProdrug, keModifier |-> keModifier])

\* ------------------------------------------------------- the upload form
\* KNOWN_DRUGS, unnamed/part_000:11-14.
KNOWN_DRUGS ==
    << "CODEINE", "WARFARIN", "CLOPIDOGREL", "SIMVASTATIN", "AZATHIOPRINE",
       "FLUOROURACIL", "AMIODARONE", "CITALOPRAM", "OMEPRAZOLE", "PHENYTOIN" >>

\* A drug name of the form as its characters: the form trims, upper-cases and
\* pattern-matches the names it is given.
spell(word) ==
    CASE word = "CODEINE" -> << "C", "O", "D", "E", "I", "N", "E" >>
      [] word = "WARFARIN" -> << "W", "A", "R", "F", "A", "R", "I", "N" >>
      [] word = "CLOPIDOGREL" -> << "C", "L", "O", "P", "I", "D", "O", "G", "R", "E", "L" >>
      [] word = "SIMVASTATIN" -> << "S", "I", "M", "V", "A", "S", "T", "A", "T", "I", "N" >>
      [] word = "AZATHIOPRINE" -> << "A", "Z", "A", "T", "H", "I", "O", "P", "R", "I", "N", "E" >>
      [] word = "FLUOROURACIL" -> << "F", "L", "U", "O", "R", "O", "U", "R", "A", "C", "I", "L" >>
      [] word = "AMIODARONE" -> << "A", "M", "I", "O", "D", "A", "R", "O", "N", "E" >>
      [] word = "CITALOPRAM" -> << "C", "I", "T", "A", "L", "O", "P", "R", "A", "M" >>
      [] word = "OMEPRAZOLE" -> << "O", "M", "E", "P", "R", "A", "Z", "O", "L", "E" >>
      [] word = "PHENYTOIN" -> << "P", "H", "E", "N", "Y", "T", "O", "I", "N" >>

\* useState(KNOWN_DRUGS), unnamed/part_000:20.
InitialDrugs == [ i \in 1..Len(KNOWN_DRUGS) |-> spell(KNOWN_DRUGS[i]) ]

upperChar(c) ==
    IF \E k \in 1..26 : LowerChars[k] = c
    THEN UpperChars[CHOOSE k \in 1..26 : LowerChars[k] = c]
    ELSE c

\* String.prototype.toUpperCase on a sequence of characters.
toUpperCaseChars(str) == [ i \in 1..Len(str) |-> upperChar(str[i]) ]

RECURSIVE trimStart(_)
trimStart(str) ==
    IF str # << >> /\ str[1] = " " THEN trimStart(Tail(str)) ELSE str

RECURSIVE trimEnd(_)
trimEnd(str) ==
    IF str # << >> /\ str[Len(str)] = " " THEN trimEnd(SubSeq(str, 1, Len(str) - 1)) ELSE str

\* String.prototype.trim.
trim(str) == trimEnd(trimStart(str))

\* /^[A-Z]+$/.test(name), unnamed/part_000:41.
lettersOnly(name) ==
    /\ Len(name) >= 1
    /\ \A i \in 1..Len(name) : \E k \in 1..26 : UpperChars[k] = name[i]

\* Array.prototype.includes.
arrayIncludes(list, x) == \E i \in DOMAIN list : list[i] = x

\* The updater of toggleDrug, unnamed/part_000:25-33.
toggleDrugNoFloor(prev, drug) ==
    IF arrayIncludes(prev, drug)
    THEN SelectSeq(prev, LAMBDA d : d # drug)
    ELSE Append(prev, drug)

toggleDrug(prev, drug) ==
    IF arrayIncludes(prev, drug)
    THEN IF Len(prev) <= 1 THEN prev
         ELSE SelectSeq(prev, LAMBDA d : d # drug)
    ELSE Append(prev, drug)

\* addCustomDrug, unnamed/part_000:35-52: the three pieces of state it sets.
addCustomDrugUnchecked(drugs, input, inputError) ==
    LET name == toUpperCaseChars(trim(input))
    IN  IF name = << >>
        THEN [selectedDrugs |-> drugs, customDrugInput |-> input, drugInputError |-> "EnterName"]
        ELSE IF ~lettersOnly(name)
        THEN [selectedDrugs |-> drugs, customDrugInput |-> input, drugInputError |-> "LettersOnly"]
        ELSE [selectedDrugs |-> Append(drugs, name), customDrugInput |-> << >>,
              drugInputError |-> "null"]

addCustomDrug(drugs, input, inputError) ==
    LET name == toUpperCaseChars(trim(input))
    IN  IF name = << >>
        THEN [selectedDrugs |-> drugs, customDrugInput |-> input, drugInputError |-> "EnterName"]
        ELSE IF ~lettersOnly(name)
        THEN [selectedDrugs |-> drugs, customDrugInput |-> input, drugInputError |-> "LettersOnly"]
        ELSE IF arrayIncludes(drugs, name)
        THEN [selectedDrugs |-> drugs, customDrugInput |-> input, drugInputError |-> "AlreadySelected"]
        ELSE [selectedDrugs |-> Append(drugs, name), customDrugInput |-> << >>,
              drugInputError |-> "null"]

\* A File: its name, its size in bytes and the offset of the first
\* '##fileformat=VCF' in its bytes (-1 if there is none).
NoFile == [name |-> << >>, size |-> -1, markerAt |-> -1]

\* 50 * 1024 * 1024, unnamed/part_000:101.
MaxBytes == 52428800
\* file.slice(0, 2048), unnamed/part_000:127.
SliceBytes == 2048
\* The length of '##fileformat=VCF', unnamed/part_000:111.
MarkerLen == 16

\* file.name.toLowerCase().endsWith('.vcf'), unnamed/part_000:91.
endsWithVcf(name) ==
    LET lower == toLowerCase(name)
    IN  /\ Len(lower) >= 4
        /\ SubSeq(lower, Len(lower) - 3, Len(lower)) = << ".", "v", "c", "f" >>

\* The checks before the read, unnamed/part_000:91-104.
syncError(f) ==
    IF ~endsWithVcf(f.name) THEN "InvalidType"
    ELSE IF f.size = 0 THEN "Empty"
    ELSE IF f.size > MaxBytes THEN "TooLarge"
    ELSE "null"

\* text.includes('##fileformat=VCF') on the text of file.slice(0, 2048),
\* unnamed/part_000:109-111, 127.
headHasMarkerAnywhere(f) == f.markerAt >= 0

headHasMarker(f) ==
    LET sliceEnd == IF f.size < SliceBytes THEN f.size ELSE SliceBytes
    IN  f.markerAt >= 0 /\ f.markerAt + MarkerLen <= sliceEnd

\* ------------------------------------------------------------ the request
\* The uploaded document, line by line.  A line is a metadata line ("##..."),
\* the column header ("#CHROM..."), or a data row; marker says whether the
\* text '##fileformat=VCF' occurs in it, complete whether a data row has the
\* parser's minimum column count.
NoId == [pre |-> "", num |-> 0]

MarkerLine ==
    [kind |-> "meta", marker |-> TRUE, complete |-> FALSE, id |-> NoId, sampleData |-> << >>]
HeaderLine ==
    [kind |-> "header", marker |-> FALSE, complete |-> FALSE, id |-> NoId, sampleData |-> << >>]
ShortRow ==
    [kind |-> "row", marker |-> FALSE, complete |-> FALSE, id |-> Rs(4244285), sampleData |-> << >>]
PlainRow ==
    [kind |-> "row", marker |-> FALSE, complete |-> TRUE, id |-> Rs(4244285), sampleData |-> << "0/1", "30" >>]
MarkedRow ==
    [kind |-> "row", marker |-> TRUE, complete |-> TRUE, id |-> Rs(3892097), sampleData |-> << "1/2" >>]

DocLines == {MarkerLine, HeaderLine, ShortRow, PlainRow, MarkedRow}

SeqsUpTo(S, n) == UNION { [1..k -> S] : k \in 0..n }

Documents == SeqsUpTo(DocLines, MaxLines)

\* The comma-separated pieces of the 'drugs' form field; pad is the number of
\* blanks around the word.  The empty sequence is a missing or empty field.
RawDrugs ==
    { [pad |-> 0, word |-> "codeine"],
      [pad |-> 1, word |-> "WARFARIN"],
      [pad |-> 0, word |-> "ASPIRIN"] }

DrugLists == SeqsUpTo(RawDrugs, MaxDrugs)

\* String.prototype.toUpperCase on the words above.
toUpperCase(w) ==
    CASE w = "codeine" -> "CODEINE"
      [] OTHER -> w

\* d.trim().toUpperCase(), route.ts:97.
trimUpper(raw) == toUpperCase(raw.word)

\* route.ts:93-98.
drugsFor(requested) ==
    IF requested # << >>
    THEN [ i \in 1..Len(requested) |-> trimUpper(requested[i]) ]
    ELSE TARGET_DRUGS

\* vcfString.includes('##fileformat=VCF'), route.ts:110.
includesMarkerAlways(doc) == TRUE

includesMarker(doc) == \E k \in 1..Len(doc) : doc[k].marker

\* variants.length === 0, route.ts:124.
noVariantsNever(vs) == FALSE

noVariantsAlways(vs) == TRUE

noVariants(vs) == Len(vs) = 0

\* parseVCF of lib/vcfParser: metadata and header lines are skipped, rows
\* lacking the minimum column count are skipped, the others become variants in
\* document order.
isVariantRow(line) == line.kind = "row" /\ line.complete

parseVCF(doc) ==
    LET rows == SelectSeq(doc, isVariantRow)
    IN  [ k \in 1..Len(rows) |-> [id |-> rows[k].id, sampleData |-> rows[k].sampleData] ]

\* generatePharmacogenomicProfile of lib/pgxRulesBase: the score is one of the
\* 0..100 values; these two are ones the banding changes.
GciSamples == {88, 100}

\* evaluateDrugRisk of lib/pgxRulesBase: the gene that drives the drug.
drivingGene(drug) ==
    CASE drug \in {"CODEINE"} -> "CYP2D6"
      [] drug \in {"WARFARIN", "PHENYTOIN", "AMIODARONE"} -> "CYP2C9"
      [] drug \in {"CLOPIDOGREL", "CITALOPRAM", "OMEPRAZOLE"} -> "CYP2C19"
      [] drug = "SIMVASTATIN" -> "SLCO1B1"
      [] drug = "AZATHIOPRINE" -> "TPMT"
      [] drug = "FLUOROURACIL" -> "DPYD"
      [] OTHER -> "Unknown"

\* What generateExplanation returns, route.ts:29-87, by how the call ends.
\*   "object"   the reply parses to an object
\*   "rejected" the call throws or rejects            (catch, line 78)
\*   "badjson"  the reply is not valid JSON           (JSON.parse throws)
\*   "null"     the reply is the JSON literal null    (JSON.parse returns null)
\*   "scalar"   the reply is another non-object value (a number, a string)
CallOutcomes == {"object", "rejected", "badjson", "null", "scalar"}

generateExplanation(hasKey, outcome) ==
    IF ~hasKey THEN "DisabledNotice"
    ELSE IF outcome \in {"rejected", "badjson"} THEN "ErrorNotice"
    ELSE IF outcome = "null" THEN "Null"
    ELSE IF outcome = "scalar" THEN "Scalar"
    ELSE "Object"

\* llm_explanation.action_required, route.ts:227: a property read of null
\* throws a TypeError, of any other value it does not.
propertyReadThrows(explanation) == explanation = "Null"

\* The record a task returns, route.ts:211-242 (the fields the claims use).
buildRecord(drug, variants, profile) ==
    LET gene == drivingGene(drug)
        detected == detectedVariants(variants, gene)
    IN  [ drug |-> drug,
          primary_gene |-> gene,
          detected_variants |-> detected,
          confidence_score |-> finalConfidence(profile.gciScore),
          vcf_parsing_success |-> Len(variants) > 0,
          variant_annotation_complete |-> allVariantsHaveImpact(detected) ]

\* Promise.all, route.ts:138: a task's value goes to the task's own index.
Pending == [pending |-> TRUE]

promiseAllSlotPush(i, slots) ==
    Cardinality({ k \in DOMAIN slots : slots[k] # Pending }) + 1

promiseAllSlot(i, slots) == i

VARIABLES
    file,            \* whether the form carries a 'vcf' file
    vcfString,       \* the decoded document
    requestedDrugs,  \* the pieces of the 'drugs' field
    hasKey,          \* GROQ_API_KEY is set (groq is not null)
    pc,              \* "received", "awaiting", "responded"
    drugsToAnalyze,
    variants,
    profile,
    parsed,          \* parseVCF has been called
    evaluated,       \* the drugs evaluateDrugRisk has been called for
    task,            \* per drug: "awaiting", "done", "faulted"
    slots,           \* Promise.all's value array
    outOfOrder,      \* a task settled while an earlier one was still awaiting
    response,
    \* the per-record computations on their own
    fpc, fdrug, fvariants, fgci, fout,
    \* the assessment's labels through the route and into the dashboard
    ppc, pdrug, praw, prisk, pout, pmod,
    \* the digital twin of one record
    kpc, kdrug, kphenotype, kwindow, kmod, kout,
    \* the upload form
    upc,             \* "off", "form"
    selectedFile, isAnalyzing,
    formError,       \* the form's 'error' state
    readers,         \* the FileReaders whose read has not ended
    selections,      \* how many files the user has selected
    lastSelection,   \* the file selected last
    lastRead,        \* how its read ended: "none", "pending", "loaded", "failed"
    onAnalyze,       \* the arguments of the last onAnalyze call
    selectedDrugs, customDrugInput, drugInputError,
    appends          \* how many names have been appended to selectedDrugs

reqVars == << file, vcfString, requestedDrugs, hasKey, pc, drugsToAnalyze,
              variants, profile, parsed, evaluated, task, slots, outOfOrder,
              response >>
phenoVars == << ppc, pdrug, praw, prisk, pout, pmod >>
pkVars == << kpc, kdrug, kphenotype, kwindow, kmod, kout >>
uploadVars == << selectedFile, formError, isAnalyzing, readers, selections,
                 lastSelection, lastRead, onAnalyze >>
drugVars == << selectedDrugs, customDrugInput, drugInputError, appends >>
formVars == << upc, uploadVars, drugVars >>
simVars == << phenoVars, pkVars, formVars >>
funVars == << fpc, fdrug, fvariants, fgci, fout, simVars >>
vars == << reqVars, funVars >>

NoResponse == [status |-> 0, error |-> "", message |-> "", hasResults |-> FALSE, results |-> << >>]

Reply(status, error, message) ==
    [status |-> status, error |-> error, message |-> message, hasResults |-> FALSE, results |-> << >>]

PhenoIdle ==
    /\ ppc = "off"
    /\ pdrug = ""
    /\ praw = << >>
    /\ prisk = ""
    /\ pout = << >>
    /\ pmod = 0

PKIdle ==
    /\ kpc = "off"
    /\ kdrug = ""
    /\ kphenotype = << >>
    /\ kwindow = 0
    /\ kmod = 0
    /\ kout = << >>

NoCall == [file |-> NoFile, drugs |-> << >>]

FormIdle ==
    /\ upc = "off"
    /\ selectedFile = NoFile
    /\ formError = "null"
    /\ isAnalyzing = FALSE
    /\ readers = << >>
    /\ selections = 0
    /\ lastSelection = NoFile
    /\ lastRead = "none"
    /\ onAnalyze = NoCall
    /\ selectedDrugs = << >>
    /\ customDrugInput = << >>
    /\ drugInputError = "null"
    /\ appends = 0

SimIdle == PhenoIdle /\ PKIdle /\ FormIdle

RecordIdle ==
    /\ fpc = "off"
    /\ fvariants = << >>
    /\ fdrug = ""
    /\ fgci = 0
    /\ fout = << >>

FunIdle == SimIdle /\ RecordIdle

ReqIdle ==
    /\ file = FALSE
    /\ vcfString = << >>
    /\ requestedDrugs = << >>
    /\ hasKey = FALSE
    /\ pc = "off"
    /\ drugsToAnalyze = << >>
    /\ variants = << >>
    /\ profile = [gciScore |-> 0]
    /\ parsed = FALSE
    /\ evaluated = {}
    /\ task = << >>
    /\ slots = << >>
    /\ outOfOrder = FALSE
    /\ response = NoResponse

Init ==
    /\ file \in BOOLEAN
    /\ vcfString \in Documents
    /\ requestedDrugs \in DrugLists
    /\ hasKey \in BOOLEAN
    /\ pc = "received"
    /\ drugsToAnalyze = << >>
    /\ variants = << >>
    /\ profile = [gciScore |-> 0]
    /\ parsed = FALSE
    /\ evaluated = {}
    /\ task = << >>
    /\ slots = << >>
    /\ outOfOrder = FALSE
    /\ response = NoResponse
    /\ FunIdle

\* POST up to the awaits of the per-drug tasks, route.ts:89-140.
Respond(r) ==
    /\ pc' = "responded"
    /\ response' = r

PostNoFile ==
    /\ pc = "received"
    /\ ~file
    /\ drugsToAnalyze' = drugsFor(requestedDrugs)
    /\ Respond(Reply(400, "No VCF file provided.", ""))
    /\ UNCHANGED << file, vcfString, requestedDrugs, hasKey, variants, profile,
                    parsed, evaluated, task, slots, outOfOrder >>
    /\ UNCHANGED funVars

PostNoHeader ==
    /\ pc = "received"
    /\ file
    /\ ~includesMarker(vcfString)
    /\ drugsToAnalyze' = drugsFor(requestedDrugs)
    /\ Respond(Reply(422, "Invalid VCF content", "NoHeaderDetected"))
    /\ UNCHANGED << file, vcfString, requestedDrugs, hasKey, variants, profile,
                    parsed, evaluated, task, slots, outOfOrder >>
    /\ UNCHANGED funVars

PostNoVariants ==
    /\ pc = "received"
    /\ file
    /\ includesMarker(vcfString)
    /\ noVariants(parseVCF(vcfString))
    /\ drugsToAnalyze' = drugsFor(requestedDrugs)
    /\ variants' = parseVCF(vcfString)
    /\ parsed' = TRUE
    /\ Respond(Reply(422, "Invalid VCF content", "NoVariantRecords"))
    /\ UNCHANGED << file, vcfString, requestedDrugs, hasKey, profile,
                    evaluated, task, slots, outOfOrder >>
    /\ UNCHANGED funVars

PostFanOut ==
    /\ pc = "received"
    /\ file
    /\ includesMarker(vcfString)
    /\ ~noVariants(parseVCF(vcfString))
    /\ drugsToAnalyze' = drugsFor(requestedDrugs)
    /\ variants' = parseVCF(vcfString)
    /\ parsed' = TRUE
    /\ \E g \in GciSamples : profile' = [gciScore |-> g]
    /\ evaluated' = { drugsToAnalyze'[i] : i \in 1..Len(drugsToAnalyze') }
    /\ task' = [ i \in 1..Len(drugsToAnalyze') |-> "awaiting" ]
    /\ slots' = [ i \in 1..Len(drugsToAnalyze') |-> Pending ]
    /\ pc' = "awaiting"
    /\ UNCHANGED << file, vcfString, requestedDrugs, hasKey, outOfOrder, response >>
    /\ UNCHANGED funVars

\* The continuation of task i after its explanation settled, route.ts:140-242,
\* then Promise.all and the handler's end, route.ts:138, 246-253.
Settle(i, explanation) ==
    /\ pc = "awaiting"
    /\ i \in DOMAIN task
    /\ task[i] = "awaiting"
    /\ outOfOrder' = (outOfOrder \/ \E j \in 1..(i - 1) : task[j] = "awaiting")
    /\ IF propertyReadThrows(explanation)
       THEN /\ task' = [task EXCEPT ![i] = "faulted"]
            /\ slots' = slots
            /\ Respond([status |-> 500, error |-> "TypeError", message |-> "",
                        hasResults |-> FALSE, results |-> << >>])
       ELSE /\ task' = [task EXCEPT ![i] = "done"]
            /\ slots' = [slots EXCEPT ![promiseAllSlot(i, slots)] =
                            buildRecord(drugsToAnalyze[i], variants, profile)]
            /\ IF \A j \in DOMAIN task : task'[j] = "done"
               THEN Respond([status |-> 200, error |-> "", message |-> "",
                             hasResults |-> TRUE, results |-> slots'])
               ELSE UNCHANGED << pc, response >>
    /\ UNCHANGED << file, vcfString, requestedDrugs, hasKey, drugsToAnalyze,
                    variants, profile, parsed, evaluated >>
    /\ UNCHANGED funVars

\* Without an API key generateExplanation returns at once and the tasks resume
\* in the order they were started.
LocalSettle ==
    /\ ~hasKey
    /\ \E i \in DOMAIN task :
        /\ \A j \in 1..(i - 1) : task[j] # "awaiting"
        /\ Settle(i, generateExplanation(hasKey, "object"))

\* With a key each task waits for the external service, which answers the
\* calls in any order and in any of the ways of CallOutcomes, or not at all.
ExplanationSettles ==
    /\ hasKey
    /\ \E i \in DOMAIN task, outcome \in CallOutcomes :
        Settle(i, generateExplanation(hasKey, outcome))

Next ==
    \/ PostNoFile
    \/ PostNoHeader
    \/ PostNoVariants
    \/ PostFanOut
    \/ LocalSettle
    \/ ExplanationSettles

Spec == Init /\ [][Next]_vars

\* The handler's own steps run once enabled; the external service owes nothing.
FairSpec ==
    /\ Spec
    /\ WF_vars(PostNoFile \/ PostNoHeader \/ PostNoVariants \/ PostFanOut)
    /\ WF_vars(LocalSettle)

\* ------------------------------------------- the record computation alone
\* One drug per driving gene and one drug outside the table.
SampleDrugs ==
    {"CODEINE", "WARFARIN", "CLOPIDOGREL", "SIMVASTATIN", "AZATHIOPRINE",
     "FLUOROURACIL", "ASPIRIN"}

\* Ids: curated for CYP2C19, for CYP2D6 (a no-function one and another), for
\* CYP2C9, an rs id of no table, an id that is not an rs id, and the empty id.
SampleIds ==
    { Rs(4244285), Rs(3892097), Rs(16947), Rs(1799853), Rs(999),
      [pre |-> "ss", num |-> 4244285], NoId }

SampleFields ==
    { << "0/0" >>, << "0/1", "30" >>, << "1/1" >>, << "1/2", "12" >>, << >> }

SampleVariants == [id : SampleIds, sampleData : SampleFields]

ApplyBuildRecord ==
    /\ fpc = "input"
    /\ fout' = buildRecord(fdrug, fvariants, [gciScore |-> fgci])
    /\ fpc' = "output"
    /\ UNCHANGED << fdrug, fvariants, fgci >>
    /\ UNCHANGED reqVars
    /\ UNCHANGED simVars

InitRecord ==
    /\ ReqIdle
    /\ SimIdle
    /\ fpc = "input"
    /\ fdrug \in SampleDrugs
    /\ fvariants \in SeqsUpTo(SampleVariants, MaxVariants)
    /\ fgci = 100
    /\ fout = << >>

SpecRecord == InitRecord /\ [][ApplyBuildRecord]_vars

InitConf ==
    /\ ReqIdle
    /\ SimIdle
    /\ fpc = "input"
    /\ fdrug = "CODEINE"
    /\ fvariants = << [id |-> Rs(3892097), sampleData |-> << "0/1" >>] >>
    /\ fgci \in 0..100
    /\ fout = << >>

SpecConf == InitConf /\ [][ApplyBuildRecord]_vars

\* ------------------------------------------ one variant through every gene
\* Every curated id and one rs id of no table, with the sample fields of the
\* three genotypes the code names and of others.
ImpactIds == UNION { CuratedTable[g] : g \in Genes } \cup {Rs(999)}

ImpactFields == SampleFields \cup { << "1/0" >> }

InitImpact ==
    /\ ReqIdle
    /\ SimIdle
    /\ fpc = "variant"
    /\ fdrug = ""
    /\ fvariants \in { << v >> : v \in [id : ImpactIds, sampleData : ImpactFields] }
    /\ fgci = 0
    /\ fout = << >>

\* route.ts:188-199 in the tasks of drugs of every gene: the same variant is
\* annotated once per task, with the task's assessment.gene.
ApplyGetImpact ==
    /\ fpc = "variant"
    /\ fout' = [ g \in Genes |-> annotatedVariants(fvariants, g)[1] ]
    /\ fpc' = "impacts"
    /\ UNCHANGED << fdrug, fvariants, fgci >>
    /\ UNCHANGED reqVars
    /\ UNCHANGED simVars

SpecImpact == InitImpact /\ [][ApplyGetImpact]_vars

\* ----------------------------- the assessment's labels, route to dashboard
\* The ten drugs and one outside the tables.
SimDrugs == { TARGET_DRUGS[i] : i \in 1..Len(TARGET_DRUGS) } \cup {"ASPIRIN"}

InitPheno ==
    /\ ReqIdle
    /\ RecordIdle
    /\ PKIdle
    /\ FormIdle
    /\ ppc = "assessed"
    /\ pdrug \in SimDrugs
    /\ praw \in PhenotypeVocabulary
    /\ prisk \in RiskCategories
    /\ pout = << >>
    /\ pmod = 0

\* route.ts:142-162 and 215-224: the labels the record carries.
RouteNormalize ==
    /\ ppc = "assessed"
    /\ pout' = [ drug |-> pdrug,
                 phenotype |-> normalizedPhenotype(praw),
                 risk_label |-> normalizedRiskLabel(prisk),
                 severity |-> severity(normalizedRiskLabel(prisk)) ]
    /\ ppc' = "reported"
    /\ UNCHANGED << pdrug, praw, prisk, pmod >>
    /\ UNCHANGED << reqVars, fpc, fdrug, fvariants, fgci, fout, pkVars, formVars >>

\* DoctorDashboard.tsx:345-348 and 253-254: the twin simulates the record's
\* drug with the record's phenotype string.
DashboardSimulate ==
    /\ ppc = "reported"
    /\ pmod' = getKeModifier(pout.phenotype, pout.drug \in PRODRUG_SET)
    /\ ppc' = "simulated"
    /\ UNCHANGED << pdrug, praw, prisk, pout >>
    /\ UNCHANGED << reqVars, fpc, fdrug, fvariants, fgci, fout, pkVars, formVars >>

NextPheno == RouteNormalize \/ DashboardSimulate

SpecPheno == InitPheno /\ [][NextPheno]_vars

\* ------------------------------------------------------- the digital twin
\* The strings the simulator is given: the labels and the route's codes.
PhenotypeCodes == {P_PM, P_IM, P_NM, P_RM, P_URM, P_Normal, P_Unknown}

TwinPhenotypes == PhenotypeVocabulary \cup {L_NoFunction} \cup PhenotypeCodes

InitPK ==
    /\ ReqIdle
    /\ RecordIdle
    /\ PhenoIdle
    /\ FormIdle
    /\ kpc = "selected"
    /\ kdrug \in SimDrugs
    /\ kphenotype \in TwinPhenotypes
    /\ kwindow = 0
    /\ kmod = 0
    /\ kout = << >>

\* useMemo of DoctorDashboard.tsx:343.
TwinWindow ==
    /\ kpc = "selected"
    /\ kwindow' = getTimeWindow(kdrug)
    /\ kpc' = "windowed"
    /\ UNCHANGED << kdrug, kphenotype, kmod, kout >>
    /\ UNCHANGED << reqVars, fpc, fdrug, fvariants, fgci, fout, phenoVars, formVars >>

\* useMemo of DoctorDashboard.tsx:345-348; kmod is generatePKData's
\* keModifier (line 254).
TwinChart ==
    /\ kpc = "windowed"
    /\ kmod' = getKeModifier(kphenotype, kdrug \in PRODRUG_SET)
    /\ kout' = generatePKData(kdrug, kphenotype, kwindow)
    /\ kpc' = "charted"
    /\ UNCHANGED << kdrug, kphenotype, kwindow >>
    /\ UNCHANGED << reqVars, fpc, fdrug, fvariants, fgci, fout, phenoVars, formVars >>

NextPK == TwinWindow \/ TwinChart

SpecPK == InitPK /\ [][NextPK]_vars

\* ---------------------------------------------- the upload form: the file
FileName(stem, ext) == << stem, "." >> \o ext

GoodFile == [name |-> FileName("a", << "v", "c", "f" >>), size |-> 3000, markerAt |-> 0]
UpperFile ==
    [name |-> FileName("B", << "V", "C", "F" >>), size |-> MaxBytes,
     markerAt |-> SliceBytes - MarkerLen]
TinyFile == [name |-> FileName("t", << "v", "c", "f" >>), size |-> MarkerLen, markerAt |-> 0]
TextFile == [name |-> FileName("a", << "t", "x", "t" >>), size |-> 3000, markerAt |-> 0]
EmptyFile == [name |-> FileName("e", << "v", "c", "f" >>), size |-> 0, markerAt |-> -1]
HugeFile == [name |-> FileName("h", << "v", "c", "f" >>), size |-> MaxBytes + 1, markerAt |-> 0]
LateMarkerFile ==
    [name |-> FileName("l", << "v", "c", "f" >>), size |-> 3000,
     markerAt |-> SliceBytes - MarkerLen + 1]

SampleFiles ==
    {GoodFile, UpperFile, TinyFile, TextFile, EmptyFile, HugeFile, LateMarkerFile}

\* The state of the useState calls, unnamed/part_000:17-22.
InitUpload ==
    /\ ReqIdle
    /\ RecordIdle
    /\ PhenoIdle
    /\ PKIdle
    /\ upc = "form"
    /\ selectedFile = NoFile
    /\ formError = "null"
    /\ isAnalyzing = FALSE
    /\ readers = << >>
    /\ selections = 0
    /\ lastSelection = NoFile
    /\ lastRead = "none"
    /\ onAnalyze = NoCall
    /\ selectedDrugs = InitialDrugs
    /\ customDrugInput = << >>
    /\ drugInputError = "null"
    /\ appends = 0

RemoveAt(seq, i) == SubSeq(seq, 1, i - 1) \o SubSeq(seq, i + 1, Len(seq))

\* handleDrop / handleChange and validateAndSetFile up to readAsText,
\* unnamed/part_000:71-107, 127.
SelectFile ==
    /\ upc = "form"
    /\ selections < MaxSelections
    /\ \E f \in SampleFiles :
        /\ formError' = syncError(f)
        /\ selectedFile' = NoFile
        /\ readers' = IF syncError(f) = "null"
                      THEN Append(readers, [file |-> f, seq |-> selections + 1])
                      ELSE readers
        /\ lastSelection' = f
        /\ lastRead' = IF syncError(f) = "null" THEN "pending" ELSE "none"
    /\ selections' = selections + 1
    /\ UNCHANGED << isAnalyzing, onAnalyze, upc, drugVars >>
    /\ UNCHANGED << reqVars, fpc, fdrug, fvariants, fgci, fout, phenoVars, pkVars >>

\* reader.onload, unnamed/part_000:108-122; the reads end in any order.
ReaderLoad ==
    /\ upc = "form"
    /\ \E i \in DOMAIN readers :
        /\ IF ~headHasMarker(readers[i].file)
           THEN formError' = "InvalidContent" /\ selectedFile' = selectedFile
           ELSE selectedFile' = readers[i].file /\ formError' = formError
        /\ lastRead' = IF readers[i].seq = selections THEN "loaded" ELSE lastRead
        /\ readers' = RemoveAt(readers, i)
    /\ UNCHANGED << isAnalyzing, onAnalyze, selections, lastSelection, upc, drugVars >>
    /\ UNCHANGED << reqVars, fpc, fdrug, fvariants, fgci, fout, phenoVars, pkVars >>

\* reader.onerror, unnamed/part_000:123-125.
ReaderError ==
    /\ upc = "form"
    /\ \E i \in DOMAIN readers :
        /\ formError' = "ReadFailed"
        /\ lastRead' = IF readers[i].seq = selections THEN "failed" ELSE lastRead
        /\ readers' = RemoveAt(readers, i)
    /\ UNCHANGED << selectedFile, isAnalyzing, onAnalyze, selections, lastSelection,
                    upc, drugVars >>
    /\ UNCHANGED << reqVars, fpc, fdrug, fvariants, fgci, fout, phenoVars, pkVars >>

\* The 'Remove file' button, unnamed/part_000:167-177.
RemoveFile ==
    /\ upc = "form"
    /\ selectedFile # NoFile
    /\ selectedFile' = NoFile
    /\ formError' = "null"
    /\ lastSelection' = NoFile
    /\ lastRead' = "none"
    /\ UNCHANGED << isAnalyzing, onAnalyze, readers, selections, upc, drugVars >>
    /\ UNCHANGED << reqVars, fpc, fdrug, fvariants, fgci, fout, phenoVars, pkVars >>

\* The section of unnamed/part_000:201 is rendered.
drugSectionShown == selectedFile # NoFile /\ formError = "null"

\* The Analyze button, unnamed/part_000:275-277: rendered, not disabled,
\* clicked.
ClickAnalyze ==
    /\ upc = "form"
    /\ drugSectionShown
    /\ ~(selectedFile = NoFile \/ isAnalyzing \/ Len(selectedDrugs) = 0)
    /\ Len(selectedDrugs) > 0
    /\ onAnalyze' = [file |-> selectedFile, drugs |-> selectedDrugs]
    /\ UNCHANGED << selectedFile, formError, isAnalyzing, readers, selections,
                    lastSelection, lastRead, upc, drugVars >>
    /\ UNCHANGED << reqVars, fpc, fdrug, fvariants, fgci, fout, phenoVars, pkVars >>

\* The isAnalyzing prop, unnamed/part_000:6-9, 16: the parent sets it.
ParentRenders ==
    /\ upc = "form"
    /\ isAnalyzing' = ~isAnalyzing
    /\ UNCHANGED << selectedFile, formError, onAnalyze, readers, selections,
                    lastSelection, lastRead, upc, drugVars >>
    /\ UNCHANGED << reqVars, fpc, fdrug, fvariants, fgci, fout, phenoVars, pkVars >>

NextUpload ==
    \/ SelectFile
    \/ ReaderLoad
    \/ ReaderError
    \/ RemoveFile
    \/ ClickAnalyze
    \/ ParentRenders

SpecUpload == InitUpload /\ [][NextUpload]_vars

\* ------------------------------------------ the upload form: the drug list
\* What the user types into the custom drug field.
DrugInputs ==
    { << >>,
      << " " >>,
      << " ", "a", "s", "a", " " >>,
      << "H", "c", "q" >>,
      << "b", "1", "2" >>,
      << "c", "o", "d", "e", "i", "n", "e" >> }

\* The form once GoodFile has been selected and read.
InitDrugs ==
    /\ ReqIdle
    /\ RecordIdle
    /\ PhenoIdle
    /\ PKIdle
    /\ upc = "form"
    /\ selectedFile = GoodFile
    /\ formError = "null"
    /\ isAnalyzing = FALSE
    /\ readers = << >>
    /\ selections = 1
    /\ lastSelection = GoodFile
    /\ lastRead = "loaded"
    /\ onAnalyze = NoCall
    /\ selectedDrugs = InitialDrugs
    /\ customDrugInput = << >>
    /\ drugInputError = "null"
    /\ appends = 0

\* The pills of unnamed/part_000:237-264: the known drugs and the selected
\* custom ones.
pills == { spell(KNOWN_DRUGS[i]) : i \in 1..Len(KNOWN_DRUGS) }
             \cup { selectedDrugs[i] : i \in DOMAIN selectedDrugs }

\* A click on a pill, unnamed/part_000:240, 260.
ToggleDrug ==
    /\ upc = "form"
    /\ drugSectionShown
    /\ \E drug \in pills :
        LET next == toggleDrug(selectedDrugs, drug)
        IN  /\ Len(next) > Len(selectedDrugs) => appends < MaxAppends
            /\ selectedDrugs' = next
            /\ appends' = IF Len(next) > Len(selectedDrugs) THEN appends + 1 ELSE appends
    /\ UNCHANGED << customDrugInput, drugInputError, upc, uploadVars >>
    /\ UNCHANGED << reqVars, fpc, fdrug, fvariants, fgci, fout, phenoVars, pkVars >>

\* onChange of the custom drug field, unnamed/part_000:214.
TypeCustomDrug ==
    /\ upc = "form"
    /\ drugSectionShown
    /\ \E text \in DrugInputs : customDrugInput' = text
    /\ drugInputError' = "null"
    /\ UNCHANGED << selectedDrugs, appends, upc, uploadVars >>
    /\ UNCHANGED << reqVars, fpc, fdrug, fvariants, fgci, fout, phenoVars, pkVars >>

\* The Add button or Enter, unnamed/part_000:54-59, 221.
AddCustomDrug ==
    /\ upc = "form"
    /\ drugSectionShown
    /\ LET r == addCustomDrug(selectedDrugs, customDrugInput, drugInputError)
       IN  /\ Len(r.selectedDrugs) > Len(selectedDrugs) => appends < MaxAppends
           /\ selectedDrugs' = r.selectedDrugs
           /\ customDrugInput' = r.customDrugInput
           /\ drugInputError' = r.drugInputError
           /\ appends' = IF Len(r.selectedDrugs) > Len(selectedDrugs)
                         THEN appends + 1 ELSE appends
    /\ UNCHANGED << upc, uploadVars >>
    /\ UNCHANGED << reqVars, fpc, fdrug, fvariants, fgci, fout, phenoVars, pkVars >>

NextDrugs == ToggleDrug \/ TypeCustomDrug \/ AddCustomDrug

SpecDrugs == InitDrugs /\ [][NextDrugs]_vars

\* ------------------------------------------------------------ properties
docHasMarker == \E k \in DOMAIN vcfString : vcfString[k].marker
docHasVariantRow ==
    \E k \in DOMAIN vcfString : vcfString[k].kind = "row" /\ vcfString[k].complete
gatesPassed == task # << >>

HeaderError == Reply(422, "Invalid VCF content", "NoHeaderDetected")
EmptyError == Reply(422, "Invalid VCF content", "NoVariantRecords")

\* C1: a request whose uploaded document lacks the format marker never parses
\* the document, never evaluates a drug and never starts the per-drug tasks,
\* and its response is the 422 missing-header error without a results array,
\* whatever rows the document has.
C1_HeaderGate ==
    (file /\ ~docHasMarker) =>
        /\ ~parsed
        /\ evaluated = {}
        /\ pc # "awaiting"
        /\ pc = "responded" => response = HeaderError /\ ~response.hasResults

\* C1 witness: a marker-less document with a well-formed data row was rejected.
C1_Witness ==
    /\ pc = "responded"
    /\ file
    /\ ~docHasMarker
    /\ docHasVariantRow
    /\ response.status = 422
    /\ response.message = "NoHeaderDetected"

\* C2: a request whose document has the marker but yields no variant never
\* starts the per-drug tasks, and its response is the 422 empty-result error,
\* whose message differs from the missing-header one, without a results array.
C2_EmptyDataGate ==
    (file /\ docHasMarker /\ ~docHasVariantRow) =>
        /\ pc # "awaiting"
        /\ evaluated = {}
        /\ pc = "responded" =>
            /\ response = EmptyError
            /\ response.message # HeaderError.message
            /\ response.status # 200
            /\ ~response.hasResults

\* C2 witness: a document with the marker and only an incomplete row was
\* parsed and rejected as empty.
C2_Witness ==
    /\ pc = "responded"
    /\ file
    /\ docHasMarker
    /\ \E k \in DOMAIN vcfString : vcfString[k] = ShortRow
    /\ parsed
    /\ variants = << >>
    /\ response = EmptyError

\* C3: when the task of one requested drug has faulted, the response still
\* has a results array, and it holds the record of every other drug whose
\* task completed.
C3_PerDrugFaultIsolation ==
    \A i \in DOMAIN task :
        (pc = "responded" /\ task[i] = "faulted") =>
            /\ response.hasResults
            /\ \A j \in DOMAIN task \ {i} :
                   task[j] = "done" =>
                       \E k \in DOMAIN response.results : response.results[k] = slots[j]

\* C4: however the explanation calls ended, the response of a request that
\* passed both gates has one result record per requested drug.
C4_ExplanationIsolation ==
    (pc = "responded" /\ gatesPassed) =>
        /\ response.status = 200
        /\ Len(response.results) = Len(drugsToAnalyze)
        /\ \A i \in DOMAIN drugsToAnalyze : response.results[i].drug = drugsToAnalyze[i]

\* C5: every request that passed both gates eventually gets its response.
C5_BoundedSideTask == (pc = "awaiting") ~> (pc = "responded")

\* C6: a response with a results array has one record per requested drug, and
\* the i-th record is the record of the i-th requested drug, in whatever order
\* the tasks settled.
C6_ResultOrdering ==
    (pc = "responded" /\ response.hasResults) =>
        /\ Len(response.results) = Len(drugsToAnalyze)
        /\ drugsToAnalyze = drugsFor(requestedDrugs)
        /\ \A i \in DOMAIN drugsToAnalyze :
               response.results[i] = buildRecord(drugsToAnalyze[i], variants, profile)

\* C6 witness: the tasks of two different drugs settled out of request order
\* and the response lists them in request order.
C6_Witness ==
    /\ pc = "responded"
    /\ response.hasResults
    /\ outOfOrder
    /\ Len(requestedDrugs) >= 2
    /\ response.results[1].drug = "CODEINE"
    /\ response.results[2].drug = "WARFARIN"

C8_ConfidenceCap ==
    fpc = "output" => fout.confidence_score >= 0 /\ fout.confidence_score <= 95

isAmbiguous(v, gene) ==
    /\ v.id \in UNION { CuratedTable[g] : g \in Genes \cap {gene} }
    /\ v.sampleData # << >>
    /\ v.sampleData[1] \notin {"0/0", "0/1", "1/1"}

\* C9: when an input variant of the driving gene's table has a genotype other
\* than 0/0, 0/1 and 1/1, it is not among the detected variants and the
\* record's variant_annotation_complete flag is false.
C9_AmbiguousGenotypeFlag ==
    fpc = "output" =>
        \A k \in DOMAIN fvariants :
            isAmbiguous(fvariants[k], fout.primary_gene) =>
                /\ \A d \in DOMAIN fout.detected_variants :
                       ~(fout.detected_variants[d].rsid = fvariants[k].id
                         /\ fout.detected_variants[d].genotype = fvariants[k].sampleData[1])
                /\ fout.variant_annotation_complete = FALSE

\* C10: every detected variant of a record has an rs id of the curated table
\* of the record's driving gene and an impact other than Unknown.
C10_NonBleed ==
    fpc = "output" =>
        \A d \in DOMAIN fout.detected_variants :
            LET dv == fout.detected_variants[d]
            IN  /\ fout.primary_gene \in Genes
                /\ dv.rsid \in CuratedTable[fout.primary_gene]
                /\ dv.rsid.pre = "rs"
                /\ dv.impact \in {"Normal_function", "Reduced_function",
                                  "No_function", "Loss_of_function"}

\* C10 witness: of two input variants, the one of the driving gene's table was
\* surfaced and the one of another gene's table was not.
C10_Witness ==
    /\ fpc = "output"
    /\ fdrug = "CLOPIDOGREL"
    /\ Len(fvariants) = 2
    /\ fvariants[1].id = Rs(3892097)
    /\ fvariants[1].sampleData = << "1/1" >>
    /\ Len(fout.detected_variants) = 1
    /\ fout.detected_variants[1].rsid = Rs(4244285)

\* C11: the modifier the dashboard simulates a record with is the modifier of
\* the assessment's called phenotype label.
C11_EndToEndModifier ==
    ppc = "simulated" => pmod = getKeModifier(praw, pdrug \in PRODRUG_SET)

reportedLabels == ppc \in {"reported", "simulated"}

\* C18: the reported risk label is Unknown exactly when the assessment's risk
\* is Indeterminate and is the assessment's risk otherwise; the severity is
\* none for Safe, moderate for Adjust Dosage, critical for Toxic and low for
\* Unknown.
C18_RiskNormalization ==
    reportedLabels =>
        /\ (pout.risk_label = "Unknown") <=> (prisk = "Indeterminate")
        /\ prisk # "Indeterminate" => pout.risk_label = prisk
        /\ pout.risk_label # "Indeterminate"
        /\ pout.risk_label = "Safe" => pout.severity = "none"
        /\ pout.risk_label = "Adjust Dosage" => pout.severity = "moderate"
        /\ pout.risk_label = "Toxic" => pout.severity = "critical"
        /\ pout.risk_label = "Unknown" => pout.severity = "low"

\* C18 witness: an Indeterminate assessment was reported as Unknown, low.
C18_Witness ==
    /\ ppc = "reported"
    /\ prisk = "Indeterminate"
    /\ pout.risk_label = "Unknown"
    /\ pout.severity = "low"

C20_NormalSpecialCase ==
    reportedLabels =>
        /\ praw = L_NormalFunction =>
               pout.phenotype = P_Normal /\ pout.phenotype # P_NM
        /\ includes(praw, L_NormalMetabolizer) =>
               pout.phenotype = P_NM /\ pout.phenotype # P_Normal

\* C20 witness: 'Normal Function' was reported as Normal.
C20_Witness ==
    /\ ppc = "reported"
    /\ praw = L_NormalFunction
    /\ pout.phenotype = P_Normal

charted == kpc = "charted"
twinIsProdrug == kdrug \in PRODRUG_SET

\* C12: for a direct-clearance drug the modifier (in hundredths) is 20 for a
\* poor or no-function label, 50 for an intermediate or decreased one, 150 for
\* a rapid and 200 for an ultrarapid one; for a prodrug it is 15, 55, 150 and
\* 220; every other string gets 100; a label containing 'ultra' never gets
\* the rapid value 150.
C12_ModifierPolarity ==
    charted =>
        /\ kphenotype \in {L_PoorMetabolizer, L_PoorFunction, L_NoFunction} =>
               kmod = (IF twinIsProdrug THEN 15 ELSE 20) /\ kmod < 100
        /\ kphenotype \in {L_IntermediateMetabolizer, L_DecreasedFunction} =>
               kmod = (IF twinIsProdrug THEN 55 ELSE 50) /\ kmod < 100
        /\ kphenotype = L_RapidMetabolizer => kmod = 150
        /\ kphenotype \in {L_UltrarapidMetabolizer, L_UltraRapidMetabolizer} =>
               kmod = (IF twinIsProdrug THEN 220 ELSE 200) /\ kmod > 100
        /\ kphenotype \in ({L_NormalMetabolizer, L_NormalFunction, L_Indeterminate}
                           \cup PhenotypeCodes) => kmod = 100
        /\ includes(toLowerCase(kphenotype), W_ultra) => kmod # 150

\* C12 witness: WARFARIN, a direct-clearance drug, got 200 for 'Ultrarapid
\* Metabolizer', which contains 'rapid'.
C12_Witness ==
    /\ charted
    /\ kdrug = "WARFARIN"
    /\ kphenotype = L_UltrarapidMetabolizer
    /\ kmod = 200

windowed == kpc \in {"windowed", "charted"}
fiveHalfLives == pkParams(kdrug).halfLifeHr * 5

\* C13 as claimed: the window is one of 12, 24, 72, 120 and is not smaller
\* than five half-lives.
C13_WindowSnappedUpward ==
    windowed => kwindow \in {12, 24, 72, 120} /\ kwindow * 10 >= fiveHalfLives

\* C13 as amended: the window is one of 12, 24, 72, 120; it is not smaller
\* than five half-lives when these are at most 120 h, and is 120 otherwise.
C13_WindowSnappedOrCapped ==
    windowed =>
        /\ kwindow \in {12, 24, 72, 120}
        /\ fiveHalfLives <= 1200 => kwindow * 10 >= fiveHalfLives
        /\ fiveHalfLives > 1200 => kwindow = 120

\* C13 witness: WARFARIN (five half-lives are 180 h) got the 120 h window.
C13_Witness == windowed /\ kdrug = "WARFARIN" /\ kwindow = 120

\* C14: the series has exactly 48 samples, the first at time 0 and each next
\* one window/48 later.
C14_SampleCount ==
    charted =>
        /\ Len(kout) = 48
        /\ kout[1].time = 0
        /\ \A k \in 1..(Len(kout) - 1) :
               (kout[k + 1].time - kout[k].time) * 48 = kwindow * 100

\* C15: every sample of the series has a metabolite field if the drug is a
\* prodrug and none has one otherwise.
C15_MetabolitePresence ==
    charted =>
        \A k \in DOMAIN kout :
            ("metabolite" \in DOMAIN kout[k]) <=> (kdrug \in {"CODEINE", "CLOPIDOGREL"})

\* C15 witness: a prodrug series with a non-zero metabolite value.
C15_Witness ==
    /\ charted
    /\ kdrug = "CLOPIDOGREL"
    /\ "metabolite" \in DOMAIN kout[3]
    /\ kout[3].metabolite > 0

twinKa == pkParams(kdrug).ka * 100
twinKe == pkParams(kdrug).ke_normal * kmod
sampleQuarter(k) == (k - 1) * ((kwindow * 4) \div 48)

C17_PKSanity ==
    charted =>
        /\ kout[1].time = 0
        /\ kout[1].concentration = 0
        /\ \A k \in DOMAIN kout :
               /\ kout[k].concentration >= 0
               /\ "metabolite" \in DOMAIN kout[k] => kout[k].metabolite >= 0

\* C17 witness: a series that starts at 0 and rises above it.
C17_Witness ==
    /\ charted
    /\ kdrug = "SIMVASTATIN"
    /\ kphenotype = L_PoorFunction
    /\ kout[1].concentration = 0
    /\ kout[2].concentration > 0

\* The format marker occurs on a line of its own above every data row.
markerBeforeFirstRow ==
    \E k \in DOMAIN vcfString :
        /\ vcfString[k].marker
        /\ \A j \in 1..k : vcfString[j].kind # "row"

\* C21: a request whose document has no format marker before its first data
\* row (the marker is missing, comes after a data row or is inside one) is
\* answered with the 422 missing-header error.
C21_HeaderPosition ==
    (pc = "responded" /\ file /\ ~markerBeforeFirstRow) => response = HeaderError

FileError == Reply(400, "No VCF file provided.", "")

\* C29: the response is the 400 missing-file error exactly when the form has
\* no file, otherwise the 422 missing-header error exactly when the document
\* lacks the marker, otherwise the 422 empty-result error exactly when no
\* variant was parsed; the document is parsed only past the first two checks,
\* and the profile, the drug evaluations and the per-drug tasks with their
\* explanation calls exist only past all three.
C29_OutcomePrecedence ==
    /\ pc = "responded" =>
        /\ response = FileError <=> ~file
        /\ response = HeaderError <=> (file /\ ~docHasMarker)
        /\ response = EmptyError <=> (file /\ docHasMarker /\ ~docHasVariantRow)
    /\ parsed => file /\ docHasMarker
    /\ (evaluated # {} \/ task # << >> \/ profile.gciScore # 0 \/ pc = "awaiting") =>
        file /\ docHasMarker /\ docHasVariantRow

\* C29 witness: a request without a file whose document also lacks the marker
\* and has no row got the missing-file error, and nothing was parsed.
C29_Witness ==
    /\ pc = "responded"
    /\ ~file
    /\ ~docHasMarker
    /\ ~docHasVariantRow
    /\ response = FileError
    /\ ~parsed

twinUnknownDrug == kdrug \notin DOMAIN DRUG_PK_PARAMS

\* C22: for a drug outside the PK parameter table the window is 72 h (five
\* times the default half-life of 6 h), and the series is complete (a sample
\* every 1.5 h from 0 to 72 h), has no metabolite field, carries the default
\* thresholds and has the concentrations of the default parameter set.
C22_UnknownDrugDefaults ==
    /\ (windowed /\ twinUnknownDrug) => kwindow = 72
    /\ (charted /\ twinUnknownDrug) =>
        /\ Len(kout) = 49
        /\ \A k \in DOMAIN kout :
            /\ kout[k].time = (k - 1) * 150
            /\ "metabolite" \notin DOMAIN kout[k]
            /\ kout[k].toxicity = 800
            /\ kout[k].efficacy = 200
            /\ kout[k].concentration =
                   concentrationAt(DefaultPKParams, 120000, 250 * kmod, (k - 1) * 6)

\* C22 witness: ASPIRIN, which the table does not have, was charted over 72 h
\* with a concentration that rises from 0.
C22_Witness ==
    /\ charted
    /\ kdrug = "ASPIRIN"
    /\ kphenotype = L_PoorMetabolizer
    /\ kwindow = 72
    /\ kmod = 20
    /\ kout[2].concentration > 0

annotated == fpc = "impacts"

\* C23: for an rsID of the gene's curated table the impact is Normal_function
\* for genotype 0/0, Reduced_function for 0/1, and for 1/1 No_function if the
\* rsID is rs3892097, rs3918290 or rs1065852 and Loss_of_function if it is any
\* other curated rsID; every other genotype string gives Unknown.
C23_GenotypeImpact ==
    annotated =>
        \A g \in Genes :
            fout[g].rsid \in CuratedTable[g] =>
                fout[g].impact =
                    CASE fout[g].genotype = "0/0" -> "Normal_function"
                      [] fout[g].genotype = "0/1" -> "Reduced_function"
                      [] fout[g].genotype = "1/1" ->
                            IF fout[g].rsid.num \in {3892097, 3918290, 1065852}
                            THEN "No_function" ELSE "Loss_of_function"
                      [] OTHER -> "Unknown"

\* C23 witness: rs1065852 with genotype 1/1 is No_function for CYP2D6.
C23_Witness ==
    /\ annotated
    /\ fvariants[1].id = Rs(1065852)
    /\ fout["CYP2D6"].genotype = "1/1"
    /\ fout["CYP2D6"].impact = "No_function"

\* C24: the curated rsID sets of two different genes share no rsID, and a
\* variant has an impact other than Unknown for at most one gene.
C24_DisjointTables ==
    /\ \A g, h \in Genes : g # h => CuratedTable[g] \cap CuratedTable[h] = {}
    /\ annotated => Cardinality({ g \in Genes : fout[g].impact # "Unknown" }) <= 1

\* C24 witness: rs4244285 with genotype 0/1 is surfaced for CYP2C19 and for
\* no other gene.
C24_Witness ==
    /\ annotated
    /\ fvariants[1].id = Rs(4244285)
    /\ fout["CYP2C19"].impact = "Reduced_function"
    /\ \A g \in Genes \ {"CYP2C19"} : fout[g].impact = "Unknown"

settled == upc = "form" /\ readers = << >> /\ lastSelection # NoFile

\* The file selected last passed every check of the form.
lastPassed ==
    /\ lastRead = "loaded"
    /\ lastSelection.size >= 1
    /\ lastSelection.size <= 52428800
    /\ lastSelection.markerAt >= 0
    /\ lastSelection.markerAt + 16 <= 2048

\* C25: once no read is pending, selectedFile is the file selected last if
\* that file passed validation and is null otherwise, and selectedFile and
\* the error are never both set.
C25_ValidationRace ==
    settled =>
        /\ selectedFile = (IF lastPassed THEN lastSelection ELSE NoFile)
        /\ ~(selectedFile # NoFile /\ formError # "null")

hasVcfName(f) ==
    /\ Len(f.name) >= 4
    /\ f.name[Len(f.name) - 3] = "."
    /\ f.name[Len(f.name) - 2] \in {"v", "V"}
    /\ f.name[Len(f.name) - 1] \in {"c", "C"}
    /\ f.name[Len(f.name)] \in {"f", "F"}

\* C26: every step that calls onAnalyze is taken with a file selected, no
\* error shown, isAnalyzing false and at least one drug selected, and passes
\* the selected file, whose name ends in .vcf, whose size is between 1 byte
\* and 50 MB and which has the marker within its first 2048 bytes.
C26_AnalyzeGuard ==
    [][ onAnalyze' # onAnalyze =>
            /\ selectedFile # NoFile
            /\ formError = "null"
            /\ ~isAnalyzing
            /\ Len(selectedDrugs) >= 1
            /\ onAnalyze'.file = selectedFile
            /\ onAnalyze'.drugs = selectedDrugs
            /\ hasVcfName(onAnalyze'.file)
            /\ onAnalyze'.file.size >= 1
            /\ onAnalyze'.file.size <= 52428800
            /\ onAnalyze'.file.markerAt >= 0
            /\ onAnalyze'.file.markerAt + 16 <= 2048 ]_vars

\* C26 witness: onAnalyze was called with the file named B.VCF, of exactly
\* 50 MB, whose marker ends at byte 2048.
C26_Witness ==
    /\ upc = "form"
    /\ onAnalyze.file = UpperFile
    /\ Len(onAnalyze.drugs) = 10

\* C27: the selected-drug list is never empty, and toggling the only selected
\* drug gives the same list.
C27_AtLeastOneDrug ==
    upc = "form" =>
        /\ Len(selectedDrugs) >= 1
        /\ Len(selectedDrugs) = 1 =>
               toggleDrug(selectedDrugs, selectedDrugs[1]) = selectedDrugs

\* C27 witness: nine drugs were toggled off and PHENYTOIN alone is left.
C27_Witness ==
    /\ upc = "form"
    /\ selectedDrugs = << spell("PHENYTOIN") >>

isUpperLetter(c) ==
    c \in { "A", "B", "C", "D", "E", "F", "G", "H", "I", "J", "K", "L", "M",
            "N", "O", "P", "Q", "R", "S", "T", "U", "V", "W", "X", "Y", "Z" }

\* The name the typed text stands for is empty, has a character that is not
\* a letter, or is in the list.
inputRejected ==
    LET name == toUpperCaseChars(trim(customDrugInput))
    IN  \/ name = << >>
        \/ \E i \in DOMAIN name : ~isUpperLetter(name[i])
        \/ \E i \in DOMAIN selectedDrugs : selectedDrugs[i] = name

\* C28: the selected-drug list has no duplicate and each of its entries is a
\* non-empty string of the letters A-Z, and addCustomDrug on a rejected name
\* leaves the list as it is and sets the input error.
C28_WellFormedDrugList ==
    upc = "form" =>
        /\ \A i, j \in DOMAIN selectedDrugs :
               i # j => selectedDrugs[i] # selectedDrugs[j]
        /\ \A i \in DOMAIN selectedDrugs :
               /\ selectedDrugs[i] # << >>
               /\ \A k \in DOMAIN selectedDrugs[i] : isUpperLetter(selectedDrugs[i][k])
        /\ inputRejected =>
               LET r == addCustomDrug(selectedDrugs, customDrugInput, drugInputError)
               IN  r.selectedDrugs = selectedDrugs /\ r.drugInputError # "null"

\* C28 witness: ASA was added from ' asa ', and adding CODEINE, still
\* selected, from 'codeine' was rejected.
C28_Witness ==
    /\ upc = "form"
    /\ selectedDrugs = InitialDrugs \o << << "A", "S", "A" >> >>
    /\ customDrugInput = << "c", "o", "d", "e", "i", "n", "e" >>
    /\ drugInputError = "AlreadySelected"

Range(seq) == { seq[i] : i \in DOMAIN seq }

\* C30: the drugs the simulator treats as prodrugs are the drugs whose
\* mechanism is an activation pathway, the simulator adds the metabolite to
\* the series of exactly these, and TARGET_DRUGS, the keys of MECHANISM_MAP,
\* the keys of DRUG_PK_PARAMS and KNOWN_DRUGS are the same ten drugs.
C30_ProdrugSetMatchesMechanisms ==
    /\ \A d \in DOMAIN MECHANISM_MAP :
           d \in PRODRUG_SET <=>
               MECHANISM_MAP[d] \in {"CYP2D6_activation", "CYP2C19_activation"}
    /\ PRODRUG_SET \subseteq DOMAIN MECHANISM_MAP
    /\ (charted /\ kdrug \in DOMAIN MECHANISM_MAP) =>
           \A k \in DOMAIN kout :
               "metabolite" \in DOMAIN kout[k] <=>
                   MECHANISM_MAP[kdrug] \in {"CYP2D6_activation", "CYP2C19_activation"}
    /\ Range(TARGET_DRUGS) = DOMAIN MECHANISM_MAP
    /\ Range(TARGET_DRUGS) = DOMAIN DRUG_PK_PARAMS
    /\ Range(TARGET_DRUGS) = Range(KNOWN_DRUGS)
    /\ Cardinality(Range(TARGET_DRUGS)) = 10
    /\ Len(TARGET_DRUGS) = 10
    /\ Len(KNOWN_DRUGS) = 10

\* C30 witness: CODEINE, whose mechanism is CYP2D6_activation, was charted
\* with a metabolite curve.
C30_Witness ==
    /\ charted
    /\ kdrug = "CODEINE"
    /\ MECHANISM_MAP[kdrug] = "CYP2D6_activation"
    /\ "metabolite" \in DOMAIN kout[1]

====
